---------------------------- MODULE Spec2Model ----------------------------
(***************************************************************************)
(* Subscription service (SaintKrou/GoEM): the subscriptions table, the     *)
(* SubscriptionRepository that issues statements against it, and the HTTP  *)
(* handlers that validate a request, call the repository and answer.       *)
(*                                                                         *)
(* Text is modelled as a sequence of byte codes ("07-2025" is              *)
(* <<48,55,45,50,48,50,53>>), so that time.Parse and the TEXT comparison   *)
(* of the store are computed on the characters.  A nilable value (a Go     *)
(* pointer, a NULL column) is a sequence of length 0 (nil) or 1.           *)
(* A UUID is a positive number; its textual form is the one-element        *)
(* sequence holding it, <<0>> is a text that is no UUID and <<>> is the    *)
(* empty text.                                                             *)
(*                                                                         *)
(* Spec is the service: the six routes of main, each request handled to    *)
(* its answer in one step (the query routes with a few queries only).      *)
(* QuerySpec runs the two query routes with every combination of filters   *)
(* and months on every table the create requests build.  OverlapSpec runs  *)
(* the total route on one stored subscription over the months of two       *)
(* years.  ConcSpec runs create, update and delete requests concurrently: *)
(* a step is one statement issued to the store, and a request that has     *)
(* issued its first statement and not yet its second is in flight.         *)
(***************************************************************************)
EXTENDS Integers, Sequences, FiniteSets, TLC

VARIABLES table, resp, inflight

vars == <<table, resp, inflight>>

(* Bounds of the model. *)
MaxID == 2

---------------------------------------------------------------------------
(* Text *)

Hyphen == 45
Digit0 == 48
Digit9 == 57

IsDigit(c) == c >= Digit0 /\ c <= Digit9

Num2(s, i) == (s[i] - Digit0) * 10 + (s[i + 1] - Digit0)

\* time.Parse("01-2006", s): two digits of a month 1..12, "-", four digits,
\* and no text after them.
isValidMonthYear(s) ==
    /\ Len(s) = 7
    /\ IsDigit(s[1]) /\ IsDigit(s[2])
    /\ s[3] = Hyphen
    /\ \A i \in 4..7 : IsDigit(s[i])
    /\ Num2(s, 1) >= 1 /\ Num2(s, 1) <= 12

\* The month and the year a well-formed "MM-YYYY" text denotes.
MonthOf(s) == Num2(s, 1)

YearOf(s) == Num2(s, 4) * 100 + Num2(s, 6)

MinLen(a, b) == IF Len(a) <= Len(b) THEN Len(a) ELSE Len(b)

\* a <= b for two TEXT values: the first differing character decides, a
\* prefix sorts first.  (Character by character, as under the C collation;
\* texts made of digits with the hyphen in one place compare the same under
\* any collation that orders the digits.)
TextLeq(a, b) ==
    \/ \E i \in 1..MinLen(a, b) :
          /\ \A j \in 1..(i - 1) : a[j] = b[j]
          /\ a[i] < b[i]
    \/ /\ \A j \in 1..MinLen(a, b) : a[j] = b[j]
       /\ Len(a) <= Len(b)

TextGeq(a, b) == TextLeq(b, a)

\* uuid.Parse
ParseUUID(s) ==
    IF Len(s) = 1 /\ s[1] >= 1
    THEN [err |-> "nil", val |-> s[1]]
    ELSE [err |-> "invalid UUID", val |-> 0]

Nil == <<>>
Ptr(v) == <<v>>

---------------------------------------------------------------------------
(* The subscriptions table and the repository *)

\* model.Subscription
Subscription(id, service_name, price, user_id, start_date, end_date) ==
    [id |-> id, service_name |-> service_name, price |-> price,
     user_id |-> user_id, start_date |-> start_date, end_date |-> end_date]

\* The constraint written CHECK (price >= 0).
CheckPriceNonNegative(row) == row.price >= 0

\* CREATE TABLE subscriptions: price INTEGER NOT NULL CHECK (price > 0)
CheckPrice(row) == row.price > 0

HasRow(t, id) == \E row \in t : row.id = id

RowOf(t, id) == CHOOSE row \in t : row.id = id

\* The error Update and Delete return when no row was affected.
NotFound(id) == <<"not found", id>>

IsNotFound(err, id) == err = NotFound(id)

NoErr == <<"nil", 0>>

DBErr(what) == <<what, 0>>

\* Create with the end_date column left out of the INSERT.
CreateWithoutEndDate(t, sub) ==
    IF ~CheckPrice(sub) THEN [err |-> DBErr("check constraint"), table |-> t]
    ELSE IF HasRow(t, sub.id) THEN [err |-> DBErr("duplicate key"), table |-> t]
    ELSE [err |-> NoErr, table |-> t \cup {[sub EXCEPT !.end_date = Nil]}]

\* INSERT INTO subscriptions (...) VALUES (...)
Create(t, sub) ==
    IF ~CheckPrice(sub) THEN [err |-> DBErr("check constraint"), table |-> t]
    ELSE IF HasRow(t, sub.id) THEN [err |-> DBErr("duplicate key"), table |-> t]
    ELSE [err |-> NoErr, table |-> t \cup {sub}]

\* SELECT * FROM subscriptions WHERE id = $1
GetByID(t, id) ==
    IF HasRow(t, id)
    THEN [err |-> NoErr, sub |-> Ptr(RowOf(t, id))]
    ELSE [err |-> DBErr("no rows"), sub |-> Nil]

\* The AND-ed filters List and GetTotalCost append to their query.
Filters(row, user_id, service_name) ==
    /\ (user_id # Nil => row.user_id = user_id[1])
    /\ (service_name # Nil => row.service_name = service_name[1])

\* ORDER BY start_date (ascending).
OrderedAsc(subs) ==
    \A i \in 1..(Len(subs) - 1) : TextLeq(subs[i].start_date, subs[i + 1].start_date)

\* ORDER BY start_date DESC
OrderedDesc(subs) ==
    \A i \in 1..(Len(subs) - 1) : TextGeq(subs[i].start_date, subs[i + 1].start_date)

\* The results the store may return for List's query: the matching rows,
\* each once, in an order the ORDER BY allows (ties in any order).
List(t, user_id, service_name) ==
    LET match == {row \in t : Filters(row, user_id, service_name)}
    IN  {subs \in [1..Cardinality(match) -> match] :
            /\ \A i, j \in 1..Cardinality(match) : i # j => subs[i] # subs[j]
            /\ OrderedDesc(subs)}

\* The overlap test with the two bind parameters swapped.
OverlapsSwapped(row, startMonth, endMonth) ==
    /\ (row.end_date = Nil \/ TextGeq(row.end_date[1], endMonth))
    /\ TextLeq(row.start_date, startMonth)

\* The overlap test with strict comparisons.
OverlapsStrict(row, startMonth, endMonth) ==
    /\ (row.end_date = Nil \/ ~TextLeq(row.end_date[1], startMonth))
    /\ ~TextGeq(row.start_date, endMonth)

\* WHERE (end_date IS NULL OR end_date >= $1) AND start_date <= $2
Overlaps(row, startMonth, endMonth) ==
    /\ (row.end_date = Nil \/ TextGeq(row.end_date[1], startMonth))
    /\ TextLeq(row.start_date, endMonth)

RECURSIVE SumPrice(_)
SumPrice(rows) ==
    IF rows = {} THEN 0
    ELSE LET row == CHOOSE r \in rows : TRUE
         IN  row.price + SumPrice(rows \ {row})

\* GetTotalCost with an ordering check: a range whose start is after its
\* end has no rows.
GetTotalCostOrdered(t, startMonth, endMonth, userID, serviceName) ==
    IF ~isValidMonthYear(startMonth) \/ ~isValidMonthYear(endMonth)
    THEN [err |-> DBErr("invalid month"), total |-> 0, stmts |-> 0]
    ELSE IF YearOf(startMonth) * 12 + MonthOf(startMonth)
              > YearOf(endMonth) * 12 + MonthOf(endMonth)
    THEN [err |-> NoErr, total |-> 0, stmts |-> 1]
    ELSE [err |-> NoErr,
          total |-> SumPrice({row \in t :
                        /\ Overlaps(row, startMonth, endMonth)
                        /\ Filters(row, userID, serviceName)}),
          stmts |-> 1]

\* SELECT COALESCE(SUM(price), 0) ...; stmts is the number of statements
\* issued to the store.
GetTotalCost(t, startMonth, endMonth, userID, serviceName) ==
    IF ~isValidMonthYear(startMonth) \/ ~isValidMonthYear(endMonth)
    THEN [err |-> DBErr("invalid month"), total |-> 0, stmts |-> 0]
    ELSE [err |-> NoErr,
          total |-> SumPrice({row \in t :
                        /\ Overlaps(row, startMonth, endMonth)
                        /\ Filters(row, userID, serviceName)}),
          stmts |-> 1]

\* Update that does not look at RowsAffected.
UpdateIgnoringRowsAffected(t, sub) ==
    IF ~HasRow(t, sub.id) THEN [err |-> NoErr, table |-> t]
    ELSE IF ~CheckPrice(sub) THEN [err |-> DBErr("check constraint"), table |-> t]
    ELSE [err |-> NoErr, table |-> (t \ {RowOf(t, sub.id)}) \cup {sub}]

\* Update whose statement has no WHERE clause: every row takes the values.
UpdateWithoutWhere(t, sub) ==
    IF ~HasRow(t, sub.id) THEN [err |-> NotFound(sub.id), table |-> t]
    ELSE IF ~CheckPrice(sub) THEN [err |-> DBErr("check constraint"), table |-> t]
    ELSE [err |-> NoErr, table |-> {[sub EXCEPT !.id = row.id] : row \in t}]

\* UPDATE subscriptions SET ... WHERE id = :id
Update(t, sub) ==
    IF ~HasRow(t, sub.id) THEN [err |-> NotFound(sub.id), table |-> t]
    ELSE IF ~CheckPrice(sub) THEN [err |-> DBErr("check constraint"), table |-> t]
    ELSE [err |-> NoErr, table |-> (t \ {RowOf(t, sub.id)}) \cup {sub}]

\* DELETE FROM subscriptions WHERE id = $1
Delete(t, id) ==
    IF ~HasRow(t, id) THEN [err |-> NotFound(id), table |-> t]
    ELSE [err |-> NoErr, table |-> t \ {RowOf(t, id)}]

---------------------------------------------------------------------------
(* The HTTP handlers.  Each Handle operator is one handler run to its     *)
(* answer on table t: the status written, the body sent, the number of    *)
(* statements the repository issued to the store, and the table after.    *)

Answer(status, body, stmts, t) ==
    [status |-> status, body |-> body, stmts |-> stmts, table |-> t]

\* The checks without the one on start_date.
ValidateWithoutStartDate(input) ==
    IF ~input.json THEN "body"
    ELSE IF input.service_name = "" THEN "service_name"
    ELSE IF input.price <= 0 THEN "price"
    ELSE IF ParseUUID(input.user_id).err # "nil" THEN "user_id"
    ELSE "ok"

\* The checks CreateSubscription and UpdateSubscription make on the decoded
\* body, in the order of the code; "ok" when all pass.
Validate(input) ==
    IF ~input.json THEN "body"
    ELSE IF input.service_name = "" THEN "service_name"
    ELSE IF input.price <= 0 THEN "price"
    ELSE IF ParseUUID(input.user_id).err # "nil" THEN "user_id"
    ELSE IF ~isValidMonthYear(input.start_date) THEN "start_date"
    ELSE "ok"

\* sub := &model.Subscription{...}
NewSubscription(id, input) ==
    Subscription(id, input.service_name, input.price,
                 ParseUUID(input.user_id).val, input.start_date, input.end_date)

\* Handler.CreateSubscription; newID is the value of uuid.New().
HandleCreate(t, input, newID) ==
    IF Validate(input) # "ok" THEN Answer(400, Nil, 0, t)
    ELSE LET sub == NewSubscription(newID, input)
             created == Create(t, sub)
             saved == GetByID(created.table, sub.id)
         IN  IF created.err # NoErr THEN Answer(500, Nil, 1, created.table)
             ELSE IF saved.err # NoErr THEN Answer(500, Nil, 2, created.table)
             ELSE Answer(201, saved.sub, 2, created.table)

\* Handler.GetSubscriptionByID
HandleGet(t, idStr) ==
    IF ParseUUID(idStr).err # "nil" THEN Answer(400, Nil, 0, t)
    ELSE LET got == GetByID(t, ParseUUID(idStr).val)
         IN  IF got.err # NoErr THEN Answer(404, Nil, 1, t)
             ELSE Answer(200, got.sub, 1, t)

\* A query parameter that is "" is no filter.
UserFilter(userIDStr) == IF userIDStr = <<>> THEN Nil ELSE Ptr(ParseUUID(userIDStr).val)

NameFilter(serviceName) == IF serviceName = "" THEN Nil ELSE Ptr(serviceName)

BadUserFilter(userIDStr) == userIDStr # <<>> /\ ParseUUID(userIDStr).err # "nil"

\* Handler.ListSubscriptions: the answers it may give (one per order the
\* store may return the rows in).
HandleList(t, userIDStr, serviceName) ==
    IF BadUserFilter(userIDStr) THEN {Answer(400, Nil, 0, t)}
    ELSE {Answer(200, subs, 1, t) :
             subs \in List(t, UserFilter(userIDStr), NameFilter(serviceName))}

\* Handler.GetTotalCost
HandleTotal(t, startMonth, endMonth, userIDStr, serviceName) ==
    IF startMonth = <<>> \/ endMonth = <<>> THEN Answer(400, Nil, 0, t)
    ELSE IF BadUserFilter(userIDStr) THEN Answer(400, Nil, 0, t)
    ELSE LET res == GetTotalCost(t, startMonth, endMonth,
                                 UserFilter(userIDStr), NameFilter(serviceName))
         IN  IF res.err # NoErr THEN Answer(500, Nil, res.stmts, t)
             ELSE Answer(200, res.total, res.stmts, t)

\* Handler.UpdateSubscription
HandleUpdate(t, idStr, input) ==
    IF ParseUUID(idStr).err # "nil" THEN Answer(400, Nil, 0, t)
    ELSE IF Validate(input) # "ok" THEN Answer(400, Nil, 0, t)
    ELSE LET id == ParseUUID(idStr).val
             sub == NewSubscription(id, input)
             upd == Update(t, sub)
             updated == GetByID(upd.table, id)
         IN  IF IsNotFound(upd.err, id) THEN Answer(404, Nil, 1, upd.table)
             ELSE IF upd.err # NoErr THEN Answer(500, Nil, 1, upd.table)
             ELSE IF updated.err # NoErr THEN Answer(500, Nil, 2, upd.table)
             ELSE Answer(200, updated.sub, 2, upd.table)

\* Handler.DeleteSubscription
HandleDelete(t, idStr) ==
    IF ParseUUID(idStr).err # "nil" THEN Answer(400, Nil, 0, t)
    ELSE LET id == ParseUUID(idStr).val
             del == Delete(t, id)
         IN  IF IsNotFound(del.err, id) THEN Answer(404, Nil, 1, del.table)
             ELSE IF del.err # NoErr THEN Answer(500, Nil, 1, del.table)
             ELSE Answer(204, Nil, 1, del.table)

---------------------------------------------------------------------------
(* Requests *)

M01_2025 == <<48, 49, 45, 50, 48, 50, 53>>    \* "01-2025"
M07_2025 == <<48, 55, 45, 50, 48, 50, 53>>    \* "07-2025"
M12_2024 == <<49, 50, 45, 50, 48, 50, 52>>    \* "12-2024"
Y2025_07 == <<50, 48, 50, 53, 45, 48, 55>>    \* "2025-07"
M13_2025 == <<49, 51, 45, 50, 48, 50, 53>>    \* "13-2025"

Months == {M01_2025, M07_2025, M12_2024}
BadMonths == {Y2025_07, M13_2025}

IDs == 1..MaxID
Users == {1, 2}
IDTexts == {<<i>> : i \in 0..MaxID}
Names == {"Netflix", "Yandex Plus"}

Body(json, service_name, price, user_id, start_date, end_date) ==
    [json |-> json, service_name |-> service_name, price |-> price,
     user_id |-> user_id, start_date |-> start_date, end_date |-> end_date]

BaseBody == Body(TRUE, "Netflix", 1, <<1>>, M01_2025, Nil)

\* Request bodies that pass the handler's checks: the base body with at
\* most one field changed.
GoodBodies ==
    {[BaseBody EXCEPT !.service_name = n] : n \in Names}
    \cup {[BaseBody EXCEPT !.price = p] : p \in {1, 2}}
    \cup {[BaseBody EXCEPT !.user_id = <<u>>] : u \in Users}
    \cup {[BaseBody EXCEPT !.start_date = d] : d \in Months}
    \cup {[BaseBody EXCEPT !.end_date = e] : e \in {Nil, Ptr(M01_2025), Ptr(Y2025_07)}}

\* Request bodies with one field the handler rejects.
BadBodies ==
    {[BaseBody EXCEPT !.json = FALSE], [BaseBody EXCEPT !.service_name = ""],
     [BaseBody EXCEPT !.user_id = <<0>>]}
    \cup {[BaseBody EXCEPT !.price = p] : p \in {-1, 0}}
    \cup {[BaseBody EXCEPT !.start_date = d] : d \in BadMonths}

Bodies == GoodBodies \cup BadBodies

\* PUT /subscriptions/{id}
UpdateRequests ==
    {<<<<i>>, b>> : i \in IDs, b \in GoodBodies}
    \cup {<<<<1>>, b>> : b \in BadBodies}
    \cup {<<<<0>>, BaseBody>>}

UserParams == {<<>>} \cup {<<u>> : u \in Users}
NameParams == {""} \cup Names

\* GET /subscriptions/total with one parameter malformed or missing.
BadTotalQueries ==
    {<<s, M07_2025, <<>>, "">> : s \in BadMonths \cup {<<>>}}
    \cup {<<M01_2025, e, <<>>, "">> : e \in BadMonths \cup {<<>>}}
    \cup {<<M01_2025, M07_2025, <<0>>, "">>}

\* GET /subscriptions/total: every range of well-formed months with no
\* filter and with both filters, and every combination of filters on one
\* range.
TotalQueries ==
    {<<s, e, <<>>, "">> : s \in Months, e \in Months}
    \cup {<<s, e, <<1>>, "Netflix">> : s \in Months, e \in Months}
    \cup {<<M01_2025, M12_2024, u, n>> : u \in UserParams, n \in NameParams}

\* GET /subscriptions with a user_id that is no UUID.
BadListQueries == {<<<<0>>, "">>}

\* GET /subscriptions: every combination of filters.
ListQueries == {<<u, n>> : u \in UserParams, n \in NameParams}

\* The records the handlers hand to the repository.
GoodRecords == {NewSubscription(id, b) : id \in IDs, b \in GoodBodies}

\* The tables create requests build: for every id no row or one record.
StoredTables ==
    {{NewSubscription(id, f[id][1]) : id \in {i \in IDs : f[i] # Nil}} :
        f \in [IDs -> {Nil} \cup {Ptr(b) : b \in GoodBodies}]}

NoResp == [op |-> "none", req |-> <<>>, status |-> 0, body |-> Nil, stmts |-> 0]

\* The requests being served at once, and a request not in flight.
Slots == {1, 2}

IdleReq == [pc |-> "idle", req |-> <<>>, id |-> 0]

NoneInFlight == [slot \in Slots |-> IdleReq]

\* The handler op answered request req with answer a.
Respond(op, req, a) ==
    /\ table' = a.table
    /\ resp' = [op |-> op, req |-> req, status |-> a.status, body |-> a.body,
                stmts |-> a.stmts]
    /\ inflight' = inflight

Init ==
    /\ table = {}
    /\ resp = NoResp
    /\ inflight = NoneInFlight

\* uuid.New() is called once the checks have passed.
CreateSubscription(input) ==
    \E newID \in (IF Validate(input) = "ok" THEN IDs ELSE {1}) :
        Respond("CreateSubscription", <<input>>, HandleCreate(table, input, newID))

GetSubscriptionByID(idStr) ==
    Respond("GetSubscriptionByID", <<idStr>>, HandleGet(table, idStr))

ListSubscriptions(userIDStr, serviceName) ==
    \E a \in HandleList(table, userIDStr, serviceName) :
        Respond("ListSubscriptions", <<userIDStr, serviceName>>, a)

HandlerGetTotalCost(startMonth, endMonth, userIDStr, serviceName) ==
    Respond("GetTotalCost", <<startMonth, endMonth, userIDStr, serviceName>>,
            HandleTotal(table, startMonth, endMonth, userIDStr, serviceName))

UpdateSubscription(idStr, input) ==
    Respond("UpdateSubscription", <<idStr, input>>, HandleUpdate(table, idStr, input))

DeleteSubscription(idStr) ==
    Respond("DeleteSubscription", <<idStr>>, HandleDelete(table, idStr))

Next ==
    \/ \E input \in Bodies : CreateSubscription(input)
    \/ \E idStr \in IDTexts : GetSubscriptionByID(idStr)
    \/ \E q \in BadListQueries \cup {<<<<>>, "">>} : ListSubscriptions(q[1], q[2])
    \/ \E q \in BadTotalQueries \cup {<<M01_2025, M12_2024, <<>>, "">>,
                                      <<M07_2025, M01_2025, <<>>, "">>} :
          HandlerGetTotalCost(q[1], q[2], q[3], q[4])
    \/ \E q \in UpdateRequests : UpdateSubscription(q[1], q[2])
    \/ \E idStr \in IDTexts : DeleteSubscription(idStr)

Spec == Init /\ [][Next]_vars

\* One stored subscription with well-formed dates, and total requests over
\* the months of two years.
MonthYear(m, y) ==
    <<Digit0 + (m \div 10), Digit0 + (m % 10), Hyphen,
      Digit0 + (y \div 1000), Digit0 + ((y \div 100) % 10),
      Digit0 + ((y \div 10) % 10), Digit0 + (y % 10)>>

WideMonths == {MonthYear(m, y) : m \in {1, 2, 9, 10, 12}, y \in {2024, 2025}}

OverlapInit ==
    /\ table \in {{NewSubscription(1, [BaseBody EXCEPT !.start_date = s, !.end_date = e])} :
                    s \in WideMonths, e \in {Nil} \cup {Ptr(d) : d \in WideMonths}}
    /\ resp = NoResp
    /\ inflight = NoneInFlight

OverlapNext ==
    \E s \in WideMonths, e \in WideMonths : HandlerGetTotalCost(s, e, <<>>, "")

OverlapSpec == OverlapInit /\ [][OverlapNext]_vars

\* The table has a primary key.
TypeOK ==
    /\ \A r1, r2 \in table : r1.id = r2.id => r1 = r2
    /\ \A row \in table : row.id \in IDs

\* Every table the handlers reach is one of StoredTables.
TablesAreStored == table \in StoredTables

\* The two query handlers on every table the create requests build.
QueryInit ==
    /\ table \in StoredTables
    /\ resp = NoResp
    /\ inflight = NoneInFlight

QueryNext ==
    \/ \E q \in ListQueries \cup BadListQueries : ListSubscriptions(q[1], q[2])
    \/ \E q \in TotalQueries \cup BadTotalQueries :
          HandlerGetTotalCost(q[1], q[2], q[3], q[4])

QuerySpec == QueryInit /\ [][QueryNext]_vars

---------------------------------------------------------------------------
(* Concurrent requests.  CreateSubscription and UpdateSubscription issue   *)
(* two statements, the write and then GetByID; other requests may issue    *)
(* theirs in between.                                                      *)

ConcBodies == {BaseBody, [BaseBody EXCEPT !.price = 2]}

\* The request of slot issued its first statement and is now in flight.
Begin(slot, pc, req, id, t) ==
    /\ table' = t
    /\ inflight' = [inflight EXCEPT ![slot] = [pc |-> pc, req |-> req, id |-> id]]
    /\ resp' = resp

\* The request in flight in slot issued its last statement and answered.
Finish(slot, op, a) ==
    /\ table' = a.table
    /\ resp' = [op |-> op, req |-> inflight[slot].req, status |-> a.status,
                body |-> a.body, stmts |-> a.stmts]
    /\ inflight' = [inflight EXCEPT ![slot] = IdleReq]

\* CreateSubscription up to and with its INSERT: an answer when a check or
\* the INSERT failed, else the request goes on to GetByID.
CreateExec(slot, input) ==
    /\ inflight[slot].pc = "idle"
    /\ \E newID \in (IF Validate(input) = "ok" THEN IDs ELSE {1}) :
          LET a == HandleCreate(table, input, newID)
          IN  IF a.stmts < 2
              THEN Respond("CreateSubscription", <<input>>, a)
              ELSE Begin(slot, "created", <<input>>, newID, a.table)

\* saved, err := h.SubscriptionRepo.GetByID(sub.ID) and the answer
CreateRead(slot) ==
    /\ inflight[slot].pc = "created"
    /\ LET saved == GetByID(table, inflight[slot].id)
       IN  Finish(slot, "CreateSubscription",
                  IF saved.err # NoErr THEN Answer(500, Nil, 2, table)
                  ELSE Answer(201, saved.sub, 2, table))

\* UpdateSubscription up to and with its UPDATE: an answer when a check or
\* the UPDATE failed, else the request goes on to GetByID.
UpdateExec(slot, idStr, input) ==
    /\ inflight[slot].pc = "idle"
    /\ LET a == HandleUpdate(table, idStr, input)
       IN  IF a.stmts < 2
           THEN Respond("UpdateSubscription", <<idStr, input>>, a)
           ELSE Begin(slot, "updated", <<idStr, input>>, ParseUUID(idStr).val, a.table)

\* updated, err := h.SubscriptionRepo.GetByID(id) and the answer
UpdateRead(slot) ==
    /\ inflight[slot].pc = "updated"
    /\ LET updated == GetByID(table, inflight[slot].id)
       IN  Finish(slot, "UpdateSubscription",
                  IF updated.err # NoErr THEN Answer(500, Nil, 2, table)
                  ELSE Answer(200, updated.sub, 2, table))

ConcNext ==
    \/ \E slot \in Slots, input \in ConcBodies : CreateExec(slot, input)
    \/ \E slot \in Slots : CreateRead(slot)
    \/ \E slot \in Slots, id \in IDs, input \in ConcBodies :
          UpdateExec(slot, <<id>>, input)
    \/ \E slot \in Slots : UpdateRead(slot)
    \/ \E id \in IDs : DeleteSubscription(<<id>>)

ConcSpec == Init /\ [][ConcNext]_vars

---------------------------------------------------------------------------
(* Properties *)

IDsOf(t) == {row.id : row \in t}

\* Records with a price the table rejects.
NonPositiveRecords ==
    {NewSubscription(id, [b EXCEPT !.price = p]) :
        id \in IDs, b \in GoodBodies, p \in {-1, 0}}

\* C1: a record with price > 0 and an id not in the table is stored by
\* Create and read back by GetByID equal in every field, an absent end_date
\* staying absent; the created answer of the handler carries the record it
\* built from the request body.
C1_RoundTrip ==
    /\ \A r \in GoodRecords :
          ~HasRow(table, r.id) =>
             LET created == Create(table, r)
                 got == GetByID(created.table, r.id)
             IN  /\ created.err = NoErr
                 /\ got.err = NoErr
                 /\ got.sub = Ptr(r)
                 /\ got.sub[1].end_date = r.end_date
    /\ (resp.op = "CreateSubscription" /\ resp.status = 201) =>
          \E id \in IDs :
             /\ resp.body = Ptr(NewSubscription(id, resp.req[1]))
             /\ GetByID(table, id).sub = resp.body

C1_Witness ==
    /\ resp.op = "CreateSubscription" /\ resp.status = 201
    /\ resp.body[1].end_date = Nil
    /\ Cardinality(table) = 2

\* C2: every stored row has price > 0; a Create with price <= 0 fails,
\* leaves the table as it was, and the handler answers such a request with
\* an error and no row.
C2_PricePositive ==
    /\ \A row \in table : row.price > 0
    /\ \A r \in NonPositiveRecords :
          /\ Create(table, r).err # NoErr
          /\ Create(table, r).table = table
          /\ Update(table, r).err # NoErr
          /\ Update(table, r).table = table
    /\ \A b \in BadBodies, id \in IDs :
          b.price <= 0 =>
             /\ HandleCreate(table, b, id).status >= 400
             /\ HandleCreate(table, b, id).table = table
    /\ (resp.op = "CreateSubscription" /\ resp.req[1].price <= 0) =>
          resp.status >= 400 /\ resp.body = Nil

C2_Witness ==
    /\ resp.op = "CreateSubscription" /\ resp.req[1].json
    /\ resp.req[1].price <= 0
    /\ resp.status = 400
    /\ table # {}

ListCorrect(t, user_id, service_name, subs) ==
    LET wanted == {row \in t :
                     /\ (user_id = Nil \/ row.user_id = user_id[1])
                     /\ (service_name = Nil \/ row.service_name = service_name[1])}
    IN  /\ {subs[i] : i \in 1..Len(subs)} = wanted
        /\ Len(subs) = Cardinality(wanted)
        /\ \A i, j \in 1..Len(subs) :
              i < j => TextLeq(subs[j].start_date, subs[i].start_date)

\* C4: List returns the stored records that match every present filter,
\* each exactly once and no other, in non-increasing order of the
\* start_date text; with nothing matching it returns the empty sequence
\* and no error.
C4_ListFiltersAndOrder ==
    /\ \A q \in ListQueries : HandleList(table, q[1], q[2]) # {}
    /\ (resp.op = "ListSubscriptions" /\ ~BadUserFilter(resp.req[1])) =>
          /\ resp.status = 200
          /\ ListCorrect(table, UserFilter(resp.req[1]), NameFilter(resp.req[2]),
                         resp.body)

C4_Witness ==
    /\ resp.op = "ListSubscriptions" /\ resp.status = 200
    /\ resp.req[1] # <<>> /\ resp.req[2] # ""
    /\ Len(resp.body) = 2
    /\ resp.body[1].start_date # resp.body[2].start_date

\* price of the row with this id when it is to be counted, else 0
Contribution(t, id, startMonth, endMonth, userID, serviceName) ==
    IF \E row \in t :
          /\ row.id = id
          /\ (row.end_date = Nil \/ TextLeq(startMonth, row.end_date[1]))
          /\ TextLeq(row.start_date, endMonth)
          /\ (userID = Nil \/ row.user_id = userID[1])
          /\ (serviceName = Nil \/ row.service_name = serviceName[1])
    THEN RowOf(t, id).price
    ELSE 0

RECURSIVE ExpectedTotal(_, _, _, _, _, _)
ExpectedTotal(t, n, startMonth, endMonth, userID, serviceName) ==
    IF n = 0 THEN 0
    ELSE Contribution(t, n, startMonth, endMonth, userID, serviceName)
         + ExpectedTotal(t, n - 1, startMonth, endMonth, userID, serviceName)

\* C5: for well-formed months GetTotalCost returns, without error, the sum
\* of price over the rows with (end_date absent or end_date >= startMonth)
\* and start_date <= endMonth that match every present filter, each once;
\* 0 when no row qualifies; never a negative number.
C5_TotalIsSumOfOverlapping ==
    /\ ( /\ resp.op = "GetTotalCost"
         /\ isValidMonthYear(resp.req[1]) /\ isValidMonthYear(resp.req[2])
         /\ ~BadUserFilter(resp.req[3]) ) =>
          /\ resp.status = 200
          /\ resp.body = ExpectedTotal(table, MaxID, resp.req[1], resp.req[2],
                                       UserFilter(resp.req[3]), NameFilter(resp.req[4]))
          /\ resp.body >= 0

C5_Witness ==
    /\ resp.op = "GetTotalCost" /\ resp.status = 200
    /\ Cardinality(table) = 2
    /\ resp.body > 0
    /\ resp.body < SumPrice(table)

\* C6: a malformed month as startMonth or endMonth of GetTotalCost, or as
\* start_date of a create request, is answered with an error before any
\* statement is issued to the store; the table is as it was.
C6_MalformedMonthRejectedBeforeStore ==
    /\ \A b \in BadBodies, id \in IDs :
          b.start_date \in BadMonths =>
             /\ HandleCreate(table, b, id).status = 400
             /\ HandleCreate(table, b, id).stmts = 0
             /\ HandleCreate(table, b, id).table = table
    /\ ( /\ resp.op = "GetTotalCost"
         /\ (resp.req[1] \in BadMonths \/ resp.req[2] \in BadMonths) ) =>
          resp.status >= 400 /\ resp.stmts = 0
    /\ (resp.op = "CreateSubscription" /\ resp.req[1].start_date \in BadMonths) =>
          resp.status = 400 /\ resp.stmts = 0

C6_Witness ==
    /\ resp.op = "CreateSubscription"
    /\ resp.req[1].start_date = M13_2025
    /\ resp.status = 400 /\ resp.stmts = 0
    /\ table # {}

DatesWellFormed(row) ==
    /\ isValidMonthYear(row.start_date)
    /\ (row.end_date = Nil \/ isValidMonthYear(row.end_date[1]))

\* C7: every stored subscription's start_date is a valid "MM-YYYY" text and
\* its end_date is absent or a valid "MM-YYYY" text.
C7_StoredDatesWellFormed == \A row \in table : DatesWellFormed(row)

\* startMonth is a later month than endMonth
Later(startMonth, endMonth) ==
    YearOf(startMonth) * 12 + MonthOf(startMonth)
        > YearOf(endMonth) * 12 + MonthOf(endMonth)

InvertedRequest ==
    /\ resp.op = "GetTotalCost"
    /\ isValidMonthYear(resp.req[1]) /\ isValidMonthYear(resp.req[2])
    /\ ~BadUserFilter(resp.req[3])
    /\ Later(resp.req[1], resp.req[2])

\* C8 as claimed: GetTotalCost with startMonth later than endMonth does not
\* fail and returns 0 whatever the table holds.
C8_InvertedRangeIsZero ==
    InvertedRequest => resp.status = 200 /\ resp.body = 0

\* the rows the overlap test admits for the range, filters applied
Spanning(t, startMonth, endMonth, userID, serviceName) ==
    {row \in t :
        /\ TextLeq(row.start_date, endMonth)
        /\ (row.end_date = Nil \/ TextLeq(startMonth, row.end_date[1]))
        /\ (userID = Nil \/ row.user_id = userID[1])
        /\ (serviceName = Nil \/ row.service_name = serviceName[1])}

\* C8, amended: GetTotalCost with startMonth later than endMonth does not
\* fail; the rows with start_date <= endMonth that have no end_date or an
\* end_date >= startMonth are still counted, and the total is 0 exactly
\* when the table holds no such row.
C8_InvertedRangeCountsSpanningRows ==
    InvertedRequest =>
       LET spanning == Spanning(table, resp.req[1], resp.req[2],
                                UserFilter(resp.req[3]), NameFilter(resp.req[4]))
       IN  /\ resp.status = 200
           /\ (resp.body = 0 <=> spanning = {})
           /\ \A row \in spanning : resp.body >= row.price

C8_Witness ==
    /\ InvertedRequest
    /\ TextLeq(resp.req[2], resp.req[1])
    /\ resp.status = 200
    /\ resp.body > 0

\* C9: a successful Update replaces the five fields of the row with the
\* record's id by the record's values (an absent end_date clears it) and
\* keeps the stored ids; a successful Delete removes that row, after which
\* GetByID finds nothing; rows with another id stay as they are.
C9_UpdateDeleteTouchOneRow ==
    /\ \A r \in GoodRecords :
          HasRow(table, r.id) =>
             LET upd == Update(table, r)
             IN  /\ upd.err = NoErr
                 /\ GetByID(upd.table, r.id).sub = Ptr(r)
                 /\ IDsOf(upd.table) = IDsOf(table)
                 /\ Cardinality(upd.table) = Cardinality(table)
                 /\ \A row \in table : row.id # r.id => row \in upd.table
    /\ \A id \in IDs :
          HasRow(table, id) =>
             LET del == Delete(table, id)
             IN  /\ del.err = NoErr
                 /\ GetByID(del.table, id).err # NoErr
                 /\ IDsOf(del.table) = IDsOf(table) \ {id}
                 /\ \A row \in table : row.id # id => row \in del.table
                 /\ del.table \subseteq table
    /\ (resp.op = "UpdateSubscription" /\ resp.status = 200) =>
          /\ resp.body = Ptr(NewSubscription(resp.req[1][1], resp.req[2]))
          /\ resp.body[1] \in table
    /\ (resp.op = "DeleteSubscription" /\ resp.status = 204) =>
          /\ ~HasRow(table, resp.req[1][1])
          /\ HandleGet(table, resp.req[1]).status = 404

C9_Witness ==
    /\ resp.op = "UpdateSubscription" /\ resp.status = 200
    /\ resp.body[1].end_date = Nil
    /\ Cardinality(table) = 2
    /\ \E row \in table : row.id # resp.body[1].id /\ row.end_date # Nil

\* all of the row's dates and the two months lie in one calendar year
SameYear(row, startMonth, endMonth) ==
    /\ DatesWellFormed(row)
    /\ isValidMonthYear(startMonth) /\ isValidMonthYear(endMonth)
    /\ YearOf(startMonth) = YearOf(row.start_date)
    /\ YearOf(endMonth) = YearOf(row.start_date)
    /\ (row.end_date # Nil => YearOf(row.end_date[1]) = YearOf(row.start_date))

\* the overlap by month numbers
MonthsOverlap(row, startMonth, endMonth) ==
    /\ (row.end_date = Nil \/ MonthOf(row.end_date[1]) >= MonthOf(startMonth))
    /\ MonthOf(row.start_date) <= MonthOf(endMonth)

\* C10: when the row's start_date, its end_date if present, startMonth and
\* endMonth are valid months of one calendar year, GetTotalCost counts the
\* row iff (end_date is absent or its month >= startMonth's month) and
\* start_date's month <= endMonth's month.
C10_SameYearOverlapIsChronological ==
    /\ \A row \in table, s \in WideMonths, e \in WideMonths :
          SameYear(row, s, e) =>
             (Overlaps(row, s, e) <=> MonthsOverlap(row, s, e))
    /\ \A row \in table :
          ( /\ resp.op = "GetTotalCost" /\ resp.status = 200
            /\ table = {row}
            /\ SameYear(row, resp.req[1], resp.req[2]) ) =>
             resp.body = IF MonthsOverlap(row, resp.req[1], resp.req[2])
                         THEN row.price ELSE 0

C10_Witness ==
    /\ resp.op = "GetTotalCost" /\ resp.status = 200
    /\ \E row \in table :
          /\ SameYear(row, resp.req[1], resp.req[2])
          /\ row.end_date # Nil
          /\ MonthOf(row.start_date) = 2 /\ MonthOf(resp.req[2]) = 10
          /\ resp.body = row.price

\* C11: an UpdateSubscription request whose Update statement succeeded (it
\* went on to its second statement) answers 200 with a body equal to the
\* record it submitted, whatever other requests did meanwhile.
C11_UpdateAnswersSubmittedRecord ==
    (resp.op = "UpdateSubscription" /\ resp.stmts = 2) =>
       /\ resp.status = 200
       /\ resp.body = Ptr(NewSubscription(ParseUUID(resp.req[1]).val, resp.req[2]))

=============================================================================
